---- MODULE Spec2Model ----
(***************************************************************************)
(* tokstat: the account store (accounts.json, the OS keyring and            *)
(* quota_history.json) behind SecureStorage, the login flows that write to *)
(* it, and the controller of the interactive dashboard.  Every storage and *)
(* terminal primitive can fail; the faults a call meets are an input of    *)
(* the call.                                                               *)
(***************************************************************************)
EXTENDS Integers, Sequences, FiniteSets, TLC

\* ---------------------------------------------------------------- bounds
MaxNames  == 3      \* account names are 1..MaxNames
MaxCred   == 1      \* credential blobs are 1..MaxCred
MaxTime   == 1      \* the clock runs over 0..MaxTime
MaxUsage  == 0      \* usage counters are None or 0..MaxUsage
MaxFaults == 1      \* primitives that fail within one call
MaxCalls  == 2      \* storage calls in one behaviour
MaxFaulty == 1      \* of these, calls that meet a fault
HistCap   == 2      \* snapshots kept per account (100 in the source)
MaxBuf    == 2      \* characters in a name buffer of the dashboard
RefreshTicks == 1   \* clock ticks in the idle-refresh interval (60 s)
MaxTurns  == 5      \* turns of the dashboard's loop in one behaviour
MaxRequests == 6    \* requests_made of a report is 0..MaxRequests
MaxLimit  == 5      \* max_requests of a report is None or 0..MaxLimit
UsizeBits == 8      \* bits of usize in the reports (64 on the targets)

\* ------------------------------------------------------------- constants
MAX_HISTORY_SIZE == HistCap
PROVIDERS == <<"copilot", "openrouter">>

Names   == 1..MaxNames
Creds   == 1..MaxCred
Times   == 0..MaxTime
NoName  == 0
NoCred  == 0
None    == -1
UsageOpt == {None} \cup (0..MaxUsage)

ProviderIds == {PROVIDERS[i] : i \in 1..Len(PROVIDERS)}

\* struct Account (email is None in every record the program builds)
Account(n, p, c, u) ==
    [name |-> n, provider |-> p, created_at |-> c, last_updated |-> u]

NoAccount == Account(NoName, "", 0, 0)

\* struct QuotaSnapshot, built by QuotaSnapshot::from_quota_info
from_quota_info(quota) ==
    [timestamp     |-> quota.last_updated,
     tokens_used   |-> quota.tokens_used,
     requests_made |-> quota.requests_made,
     cost          |-> quota.cost]

NoSnapshot ==
    [timestamp |-> 0, tokens_used |-> None, requests_made |-> None,
     cost |-> None]

\* a comparison that looks at the token count only
has_changed_from_tokens(self, other) ==
    self.tokens_used # other.tokens_used

has_changed_from(self, other) ==
    \/ self.tokens_used # other.tokens_used
    \/ self.requests_made # other.requests_made
    \/ self.cost # other.cost

\* struct QuotaHistory
QuotaHistory(n, snaps) == [account_name |-> n, snapshots |-> snaps]

\* ------------------------------------------------------------- documents
\* A document on disk is absent, complete ("ok") or cut short by a write
\* that failed part-way ("torn": fs::write truncates before it writes).
AbsentDoc    == [st |-> "absent", content |-> <<>>]
TornDoc      == [st |-> "torn", content |-> <<>>]
OkDoc(c)     == [st |-> "ok", content |-> c]

VARIABLES
    index,      \* accounts.json
    vault,      \* keyring entries of service "tokstat": name -> blob
    history,    \* quota_history.json
    now,        \* chrono::Utc::now()
    calls,      \* storage calls made so far
    faulty,     \* storage calls that met a fault so far
    last,       \* the call that produced this state, and its result
    app,        \* struct App of the dashboard
    term,       \* the terminal: raw mode and alternate screen
    ctl,        \* run / run_app: position, last_refresh, the last key
    report      \* a quota to report, the build, and the line reported

vars == <<index, vault, history, now, calls, faulty, last, app, term, ctl,
          report>>

\* what the user interface holds
dashvars == <<app, term, ctl, report>>

\* --------------------------------------------------------------- faults
LoginFaults  == {"auth", "cred_set", "interrupt", "index_read", "index_write",
                 "index_torn"}
SaveFaults   == {"index_read", "index_write", "index_torn"}
RemoveFaults == {"index_read", "cred_entry", "cred_delete", "hist_read",
                 "hist_write", "hist_torn", "index_write", "index_torn"}
RenameFaults == {"index_read", "cred_get", "cred_set", "cred_entry",
                 "cred_delete", "hist_read", "hist_write", "hist_torn",
                 "index_write", "index_torn"}
AddFaults    == {"hist_read", "hist_write", "hist_torn"}

FaultSets(S) == {F \in SUBSET S : Cardinality(F) <= MaxFaults}

LoginFaultSets  == FaultSets(LoginFaults)
SaveFaultSets   == FaultSets(SaveFaults)
RemoveFaultSets == FaultSets(RemoveFaults)
RenameFaultSets == FaultSets(RenameFaults)
AddFaultSets    == FaultSets(AddFaults)

\* A fault set is listed once per outcome: a fault that the call never meets
\* gives the outcome of the set without it.
Met(F, out(_)) == \A f \in F : out(F) # out(F \ {f})

\* ----------------------------------------------------- file primitives
load_index(doc, F) ==
    IF doc.st = "absent" THEN [ok |-> TRUE, accounts |-> <<>>]
    ELSE IF "index_read" \in F \/ doc.st = "torn"
         THEN [ok |-> FALSE, accounts |-> <<>>]
         ELSE [ok |-> TRUE, accounts |-> doc.content]

save_index(doc, accounts, F) ==
    IF "index_torn" \in F THEN [ok |-> FALSE, doc |-> TornDoc]
    ELSE IF "index_write" \in F THEN [ok |-> FALSE, doc |-> doc]
    ELSE [ok |-> TRUE, doc |-> OkDoc(accounts)]

load_history(doc, F) ==
    IF doc.st = "absent" THEN [ok |-> TRUE, hist |-> <<>>]
    ELSE IF "hist_read" \in F \/ doc.st = "torn"
         THEN [ok |-> FALSE, hist |-> <<>>]
         ELSE [ok |-> TRUE, hist |-> doc.content]

save_history(doc, hist, F) ==
    IF "hist_torn" \in F THEN [ok |-> FALSE, doc |-> TornDoc]
    ELSE IF "hist_write" \in F THEN [ok |-> FALSE, doc |-> doc]
    ELSE [ok |-> TRUE, doc |-> OkDoc(hist)]

\* -------------------------------------------------- keyring primitives
\* a store whose failure is not reported
store_credentials_unreported(v, name, cred, F) ==
    IF "cred_set" \in F THEN [ok |-> TRUE, vault |-> v]
    ELSE [ok |-> TRUE, vault |-> [v EXCEPT ![name] = cred]]

\* a store that keeps a credential already stored under the name
store_credentials_kept(v, name, cred, F) ==
    IF "cred_set" \in F THEN [ok |-> FALSE, vault |-> v]
    ELSE [ok |-> TRUE,
          vault |-> IF v[name] # NoCred THEN v
                    ELSE [v EXCEPT ![name] = cred]]

store_credentials(v, name, cred, F) ==
    IF "cred_set" \in F THEN [ok |-> FALSE, vault |-> v]
    ELSE [ok |-> TRUE, vault |-> [v EXCEPT ![name] = cred]]

get_credentials(v, name, F) ==
    IF "cred_get" \in F \/ v[name] = NoCred
    THEN [ok |-> FALSE, cred |-> NoCred]
    ELSE [ok |-> TRUE, cred |-> v[name]]

\* Entry::new can fail and is propagated; the result of delete_password is
\* dropped, whatever the error was.
delete_credentials(v, name, F) ==
    IF "cred_entry" \in F THEN [ok |-> FALSE, vault |-> v]
    ELSE IF "cred_delete" \in F THEN [ok |-> TRUE, vault |-> v]
    ELSE [ok |-> TRUE, vault |-> [v EXCEPT ![name] = NoCred]]

\* ------------------------------------------------------ list helpers
\* a retain that keeps every record
retain_accounts_all(accounts, name) == accounts

\* index.accounts.retain(|acc| acc.name != name)
retain_accounts(accounts, name) ==
    SelectSeq(accounts, LAMBDA acc : acc.name # name)

\* history.retain(|h| h.account_name != name)
retain_history(hist, name) ==
    SelectSeq(hist, LAMBDA h : h.account_name # name)

\* a collision test that never finds the name
any_account_never(accounts, name) == FALSE

\* a collision test that looks at the first record only
any_account_first(accounts, name) ==
    Len(accounts) > 0 /\ accounts[1].name = name

\* index.accounts.iter().any(|account| account.name == new_name)
any_account(accounts, name) ==
    \E i \in 1..Len(accounts) : accounts[i].name = name

\* position of the first record with that name, 0 when there is none
\* (iter_mut().find(..) / into_iter().find(..))
find_account(accounts, name) ==
    IF \E i \in 1..Len(accounts) : accounts[i].name = name
    THEN CHOOSE i \in 1..Len(accounts) :
            /\ accounts[i].name = name
            /\ \A j \in 1..(i - 1) : accounts[j].name # name
    ELSE 0

find_history(hist, name) ==
    IF \E i \in 1..Len(hist) : hist[i].account_name = name
    THEN CHOOSE i \in 1..Len(hist) :
            /\ hist[i].account_name = name
            /\ \A j \in 1..(i - 1) : hist[j].account_name # name
    ELSE 0

\* a cap that drops the newest snapshot
enforce_cap_newest(snapshots) ==
    IF Len(snapshots) > MAX_HISTORY_SIZE
    THEN SubSeq(snapshots, 1, Len(snapshots) - 1)
    ELSE snapshots

\* if h.snapshots.len() > MAX_HISTORY_SIZE { h.snapshots.remove(0); }
enforce_cap(snapshots) ==
    IF Len(snapshots) > MAX_HISTORY_SIZE THEN Tail(snapshots)
    ELSE snapshots

\* a test that never reports a missing account
nothing_removed_never(len_before, len_after) == len_after > len_before

\* remove_account's test that retain removed nothing
nothing_removed(len_before, len_after) == len_after = len_before

\* ------------------------------------------------------------ handlers
\* Every handler returns the three stores after the call, whether the call
\* returned Ok, and the step at which it returned.
Outcome(ok, step, i, v, h) ==
    [ok |-> ok, step |-> step, index |-> i, vault |-> v, history |-> h]

save_account(i, v, h, account, F) ==
    LET li == load_index(i, F) IN
    IF ~li.ok THEN Outcome(FALSE, "load_index", i, v, h)
    ELSE
    LET accounts == Append(retain_accounts(li.accounts, account.name), account)
        si == save_index(i, accounts, F)
    IN  Outcome(si.ok, IF si.ok THEN "done" ELSE "save_index", si.doc, v, h)

\* auth::copilot::login and auth::openrouter::login: obtain the secret,
\* store it, then save the account record.
\* a login that saves the account record before it stores the credential
login_account_first(i, v, h, name, provider, cred, t, F) ==
    IF "auth" \in F THEN Outcome(FALSE, "auth", i, v, h)
    ELSE
    LET sa == save_account(i, v, h, Account(name, provider, t, t), F) IN
    IF ~sa.ok THEN Outcome(FALSE, sa.step, sa.index, v, h)
    ELSE IF "interrupt" \in F
         THEN Outcome(FALSE, "interrupt", sa.index, v, h)
    ELSE
    LET sc == store_credentials(v, name, cred, F)
    IN  Outcome(sc.ok, IF sc.ok THEN "done" ELSE "store_credentials",
                sa.index, sc.vault, h)

\* "interrupt": the process is stopped between the two storage calls
login(i, v, h, name, provider, cred, t, F) ==
    IF "auth" \in F THEN Outcome(FALSE, "auth", i, v, h)
    ELSE
    LET sc == store_credentials(v, name, cred, F) IN
    IF ~sc.ok THEN Outcome(FALSE, "store_credentials", i, v, h)
    ELSE IF "interrupt" \in F
         THEN Outcome(FALSE, "interrupt", i, sc.vault, h)
    ELSE
    LET sa == save_account(i, sc.vault, h, Account(name, provider, t, t), F)
    IN  Outcome(sa.ok, IF sa.ok THEN "done" ELSE sa.step,
                sa.index, sa.vault, sa.history)

remove_account(i, v, h, name, F) ==
    LET li == load_index(i, F) IN
    IF ~li.ok THEN Outcome(FALSE, "load_index", i, v, h)
    ELSE
    LET kept == retain_accounts(li.accounts, name) IN
    IF nothing_removed(Len(li.accounts), Len(kept))
    THEN Outcome(FALSE, "not_found", i, v, h)
    ELSE
    LET dc == delete_credentials(v, name, F) IN
    IF ~dc.ok THEN Outcome(FALSE, "delete_credentials", i, v, h)
    ELSE
    LET lh == load_history(h, F) IN
    IF ~lh.ok THEN Outcome(FALSE, "load_history", i, dc.vault, h)
    ELSE
    LET sh == save_history(h, retain_history(lh.hist, name), F)
        si == save_index(i, kept, F)
    IN  Outcome(si.ok, IF si.ok THEN "done" ELSE "save_index",
                si.doc, dc.vault, sh.doc)

\* a rename that never takes its names for the same
same_name_never(old_name, new_name) == FALSE

\* `if old_name == new_name { return Ok(()); }`
same_name(old_name, new_name) == old_name = new_name

rename_account(i, v, h, old_name, new_name, t, F) ==
    IF same_name(old_name, new_name) THEN Outcome(TRUE, "same_name", i, v, h)
    ELSE
    LET li == load_index(i, F) IN
    IF ~li.ok THEN Outcome(FALSE, "load_index", i, v, h)
    ELSE
    IF any_account(li.accounts, new_name)
    THEN Outcome(FALSE, "already_exists", i, v, h)
    ELSE
    LET target == find_account(li.accounts, old_name) IN
    IF target = 0 THEN Outcome(FALSE, "not_found", i, v, h)
    ELSE
    LET gc == get_credentials(v, old_name, F) IN
    IF ~gc.ok THEN Outcome(FALSE, "get_credentials", i, v, h)
    ELSE
    LET sc == store_credentials(v, new_name, gc.cred, F) IN
    IF ~sc.ok THEN Outcome(FALSE, "store_credentials", i, v, h)
    ELSE
    LET dc == delete_credentials(sc.vault, old_name, F) IN
    IF ~dc.ok THEN Outcome(FALSE, "delete_credentials", i, sc.vault, h)
    ELSE
    LET lh == load_history(h, F) IN
    IF ~lh.ok THEN Outcome(FALSE, "load_history", i, dc.vault, h)
    ELSE
    LET k  == find_history(lh.hist, old_name)
        sh == IF k = 0 THEN [ok |-> TRUE, doc |-> h]
              ELSE save_history(h,
                     [lh.hist EXCEPT ![k].account_name = new_name], F)
    IN
    IF ~sh.ok THEN Outcome(FALSE, "save_history", i, dc.vault, sh.doc)
    ELSE
    LET accounts == [li.accounts EXCEPT ![target].name = new_name,
                                        ![target].last_updated = t]
        si == save_index(i, accounts, F)
    IN  Outcome(si.ok, IF si.ok THEN "done" ELSE "save_index",
                si.doc, dc.vault, sh.doc)

\* add_quota_snapshot returns Ok(changed); `changed` is reported as the step
add_quota_snapshot(i, v, h, account_name, quota, F) ==
    LET lh == load_history(h, F) IN
    IF ~lh.ok THEN Outcome(FALSE, "load_history", i, v, h)
    ELSE
    LET new_snapshot == from_quota_info(quota)
        k == find_history(lh.hist, account_name)
        snaps == IF k = 0 THEN <<>> ELSE lh.hist[k].snapshots
        changed ==
            IF k = 0 THEN TRUE
            ELSE IF Len(snaps) = 0 THEN TRUE
            ELSE has_changed_from(new_snapshot, snaps[Len(snaps)])
        capped == enforce_cap(Append(snaps, new_snapshot))
        hist ==
            IF k = 0
            THEN Append(lh.hist, QuotaHistory(account_name, <<new_snapshot>>))
            ELSE IF changed THEN [lh.hist EXCEPT ![k].snapshots = capped]
            ELSE lh.hist
    IN
    IF ~changed THEN Outcome(TRUE, "unchanged", i, v, h)
    ELSE
    LET sh == save_history(h, hist, F) IN
    Outcome(sh.ok, IF sh.ok THEN "changed" ELSE "save_history", i, v, sh.doc)

\* --------------------------------------------------------------- readers
\* list_accounts: the account names in index order; <<>> when load fails
list_names(doc) ==
    LET li == load_index(doc, {}) IN
    [k \in 1..Len(li.accounts) |-> li.accounts[k].name]

\* get_quota_history with no fault: the snapshots of the first record
get_quota_history(doc, name) ==
    LET lh == load_history(doc, {})
        k  == find_history(lh.hist, name)
    IN  IF k = 0 THEN <<>> ELSE lh.hist[k].snapshots

\* ------------------------------------------------------------ dashboard
\* Text: a buffer is a sequence of characters; a character is a space or
\* stands for a whole account name, so that a trimmed buffer holding one
\* name is that name.
Space == 0
Chars == {Space} \cup Names

RECURSIVE trim_start(_)
trim_start(s) ==
    IF s # <<>> /\ Head(s) = Space THEN trim_start(Tail(s)) ELSE s

RECURSIVE trim_end(_)
trim_end(s) ==
    IF s # <<>> /\ s[Len(s)] = Space
    THEN trim_end(SubSeq(s, 1, Len(s) - 1))
    ELSE s

\* a trim that leaves the leading white space
trim_trailing(s) == trim_end(s)

\* str::trim
trim(s) == trim_end(trim_start(s))

\* the account name a trimmed, non-empty buffer spells
to_name(s) == s[1]

\* account.name.clone() as a buffer
to_buffer(n) == <<n>>

\* the names a buffer can spell: at most one name between spaces
Spellable(s) ==
    /\ Len(s) <= MaxBuf
    /\ Len(SelectSeq(s, LAMBDA c : c # Space)) <= 1

\* format!("{}_{}", provider_id, chrono::Utc::now().timestamp()): one name
\* for each provider and second
default_name(provider_id, t) ==
    LET p == CHOOSE i \in 1..Len(PROVIDERS) : PROVIDERS[i] = provider_id
    IN  ((p - 1 + t) % MaxNames) + 1

\* enum Mode (provider_name follows from provider_id)
Viewing == [tag |-> "Viewing", buffer |-> <<>>, selected_provider |-> 0,
            provider_id |-> ""]
Renaming(b) == [tag |-> "Renaming", buffer |-> b, selected_provider |-> 0,
                provider_id |-> ""]
CreatingAccount(sp) == [tag |-> "CreatingAccount", buffer |-> <<>>,
                        selected_provider |-> sp, provider_id |-> ""]
CreatingAccountName(pid, b) == [tag |-> "CreatingAccountName", buffer |-> b,
                                selected_provider |-> 0, provider_id |-> pid]
Deleting == [tag |-> "Deleting", buffer |-> <<>>, selected_provider |-> 0,
             provider_id |-> ""]

\* status_message: the kind of text, the name and the error it quotes
Status(kind, name, err) == [kind |-> kind, name |-> name, err |-> err]

\* struct QuotaInfo, as far as the dashboard tells quotas apart
Quota(account) == [account_name |-> account.name, provider |-> account.provider]

\* App before App::new
NoApp ==
    [accounts |-> <<>>, quotas |-> <<>>, selected_index |-> 0,
     should_quit |-> FALSE, status_message |-> Status("none", NoName, ""),
     mode |-> Viewing]

\* providers::fetch_quota: the credential is read from the keyring, then the
\* provider is asked; fail is the set of accounts whose provider call fails
fetch_quota(account, v, fail) ==
    IF ~ get_credentials(v, account.name, {}).ok
    THEN [ok |-> FALSE, err |-> "get_credentials"]
    ELSE IF account.name \in fail
         THEN [ok |-> FALSE, err |-> "fetch"]
         ELSE [ok |-> TRUE, err |-> ""]

\* a refresh whose status is the result of the last account fetched
refresh_quotas_overwritten(self, v, fail) ==
    LET good == SelectSeq(self.accounts,
                          LAMBDA acc : fetch_quota(acc, v, fail).ok)
        n    == Len(self.accounts)
    IN  [self EXCEPT
            !.quotas = [k \in 1..Len(good) |-> Quota(good[k])],
            !.status_message =
                IF n = 0 \/ fetch_quota(self.accounts[n], v, fail).ok
                THEN Status("last_updated", NoName, "")
                ELSE Status("error_fetching", self.accounts[n].name,
                            fetch_quota(self.accounts[n], v, fail).err)]

\* App::refresh_quotas
\* a refresh pass that moves the selection back to the first account
refresh_quotas_reselected(self, v, fail) ==
    [refresh_quotas_overwritten(self, v, fail) EXCEPT !.selected_index = 0]

refresh_quotas(self, v, fail) ==
    LET good == SelectSeq(self.accounts,
                          LAMBDA acc : fetch_quota(acc, v, fail).ok)
        bad  == SelectSeq(self.accounts,
                          LAMBDA acc : ~ fetch_quota(acc, v, fail).ok)
    IN  [self EXCEPT
            !.quotas = [k \in 1..Len(good) |-> Quota(good[k])],
            !.status_message =
                IF bad = <<>> THEN Status("last_updated", NoName, "")
                ELSE Status("error_fetching", bad[Len(bad)].name,
                            fetch_quota(bad[Len(bad)], v, fail).err)]

\* App::new
new_app(accounts, v, fail) ==
    refresh_quotas([NoApp EXCEPT !.accounts = accounts], v, fail)

\* App::next
next(self) ==
    IF self.accounts # <<>>
    THEN [self EXCEPT !.selected_index = (@ + 1) % Len(self.accounts)]
    ELSE self

\* App::previous
previous(self) ==
    IF self.accounts # <<>>
    THEN [self EXCEPT !.selected_index =
              IF @ = 0 THEN Len(self.accounts) - 1 ELSE @ - 1]
    ELSE self

\* app.accounts.get(app.selected_index): selected_index counts from 0
\* a selection that always yields some account
selected_some(self) ==
    IF self.selected_index < Len(self.accounts)
    THEN self.accounts[self.selected_index + 1]
    ELSE Account(1, "copilot", 0, 0)

selected(self) ==
    IF self.selected_index < Len(self.accounts)
    THEN self.accounts[self.selected_index + 1]
    ELSE NoAccount

\* -------------------------------------------------------------- reports
bar_width == 20

\* usize::MAX
UsizeMax == 2 ^ UsizeBits - 1

\* u64::saturating_sub
saturating_sub(a, b) == IF a >= b THEN a - b ELSE 0

\* `a - b` on usize: with overflow checks (a debug build) a result below
\* zero panics, without them (a release build) it wraps
usize_sub(a, b, overflow_checks) ==
    IF a >= b THEN [ok |-> TRUE, v |-> a - b]
    ELSE IF overflow_checks THEN [ok |-> FALSE, v |-> 0]
    ELSE [ok |-> TRUE, v |-> (a - b) % (UsizeMax + 1)]

\* `x as usize` of a float that is not negative: the integer part, saturated
as_usize(num, den) ==
    IF num \div den > UsizeMax THEN UsizeMax ELSE num \div den

\* str::repeat(n) of a cell of 3 bytes: the capacity 3 * n is computed with
\* checked_mul and the call panics ("capacity overflow") when it does not fit
repeat(n) == [ok |-> 3 * n <= UsizeMax, cells |-> n]

\* {:.1} of num / den: tenths, rounded to the nearest
one_decimal(num, den) == (20 * num + den) \div (2 * den)

NoLine ==
    [by |-> "none", ok |-> TRUE, remaining |-> None, percent |-> None,
     filled |-> None, empty |-> None]

\* main.rs, format_requests_with_bar; percent is in tenths
format_requests_with_bar(max_requests, requests, overflow_checks) ==
    LET by == "format_requests_with_bar" IN
    IF max_requests = None THEN [NoLine EXCEPT !.by = by]
    ELSE
    LET remaining == saturating_sub(max_requests, requests)
        percent   == IF max_requests > 0
                     THEN one_decimal(requests * 100, max_requests)
                     ELSE 0
        filled    == IF max_requests > 0
                     THEN as_usize(requests * bar_width, max_requests)
                     ELSE 0
        empty     == usize_sub(bar_width, filled, overflow_checks)
    IN  IF empty.ok /\ repeat(filled).ok /\ repeat(empty.v).ok
        THEN [by |-> by, ok |-> TRUE, remaining |-> remaining,
              percent |-> percent, filled |-> filled, empty |-> empty.v]
        ELSE [NoLine EXCEPT !.by = by, !.ok = FALSE]

\* main.rs, format_tokens_with_bar
format_tokens_with_bar(max_tokens, tokens, overflow_checks) ==
    LET by == "format_tokens_with_bar" IN
    IF max_tokens = None THEN [NoLine EXCEPT !.by = by]
    ELSE
    LET percent == IF max_tokens > 0
                   THEN one_decimal(tokens * 100, max_tokens)
                   ELSE 0
        filled  == IF max_tokens > 0
                   THEN as_usize(tokens * bar_width, max_tokens)
                   ELSE 0
        empty   == usize_sub(bar_width, filled, overflow_checks)
    IN  IF empty.ok /\ repeat(filled).ok /\ repeat(empty.v).ok
        THEN [by |-> by, ok |-> TRUE, remaining |-> None,
              percent |-> percent, filled |-> filled, empty |-> empty.v]
        ELSE [NoLine EXCEPT !.by = by, !.ok = FALSE]

\* main.rs, format_cost_with_bar; cost and max_cost in whole units
format_cost_with_bar(max_cost, cost, overflow_checks) ==
    LET by == "format_cost_with_bar" IN
    IF max_cost = None THEN [NoLine EXCEPT !.by = by]
    ELSE
    LET percent == IF max_cost > 0
                   THEN one_decimal(cost * 100, max_cost)
                   ELSE 0
        filled  == IF max_cost > 0
                   THEN as_usize(cost * bar_width, max_cost)
                   ELSE 0
        empty   == usize_sub(bar_width, filled, overflow_checks)
    IN  IF empty.ok /\ repeat(filled).ok /\ repeat(empty.v).ok
        THEN [by |-> by, ok |-> TRUE, remaining |-> None,
              percent |-> percent, filled |-> filled, empty |-> empty.v]
        ELSE [NoLine EXCEPT !.by = by, !.ok = FALSE]

\* dashboard.rs, render_quota_details, the requests gauge: the label and the
\* ratio of the gauge (in cells of a bar of bar_width, at most all of them)
render_requests_gauge(max_requests, requests) ==
    LET by == "render_quota_details" IN
    IF max_requests = None THEN [NoLine EXCEPT !.by = by, !.filled = 0]
    ELSE [NoLine EXCEPT
            !.by = by,
            !.remaining = saturating_sub(max_requests, requests),
            !.filled = IF max_requests = 0 \/ requests >= max_requests
                       THEN bar_width
                       ELSE (requests * bar_width) \div max_requests]

NoReport ==
    [requests |-> 0, max_requests |-> None, overflow_checks |-> FALSE,
     line |-> NoLine]

\* ------------------------------------------------------------- terminal
TermFaults == {"raw_on", "raw_off", "screen_enter", "screen_leave",
               "cursor", "terminal_new", "draw", "poll"}

TermOff == [raw |-> FALSE, alt |-> FALSE]

\* the result of a run of terminal calls: the calls made, in order
TermResult(ok, t, ops) == [ok |-> ok, term |-> t, ops |-> ops]

\* run, lines 25-29: enable_raw_mode()?; execute!(Enter..)?; Terminal::new()?
setup(t, F) ==
    IF "raw_on" \in F THEN TermResult(FALSE, t, <<>>)
    ELSE LET t1 == [t EXCEPT !.raw = TRUE] IN
    IF "screen_enter" \in F THEN TermResult(FALSE, t1, <<"enable_raw_mode">>)
    ELSE LET t2 == [t1 EXCEPT !.alt = TRUE]
             ops == <<"enable_raw_mode", "enter_screen">> IN
    IF "terminal_new" \in F THEN TermResult(FALSE, t2, ops)
    ELSE TermResult(TRUE, t2, ops)

\* disable_raw_mode()?; execute!(Leave..)?; show_cursor()?
release(t, F) ==
    IF "raw_off" \in F THEN TermResult(FALSE, t, <<>>)
    ELSE LET t1 == [t EXCEPT !.raw = FALSE] IN
    IF "screen_leave" \in F THEN TermResult(FALSE, t1, <<"disable_raw_mode">>)
    ELSE LET t2 == [t1 EXCEPT !.alt = FALSE]
             ops == <<"disable_raw_mode", "leave_screen">> IN
    IF "cursor" \in F THEN TermResult(FALSE, t2, ops)
    ELSE TermResult(TRUE, t2, Append(ops, "show_cursor"))

\* run, lines 35-41
restore(t, F) == release(t, F)

\* a suspension that keeps raw mode on
suspend_raw(t, F) ==
    LET r == release(t, F)
    IN  TermResult(r.ok, [r.term EXCEPT !.raw = t.raw], r.ops)

\* run_app, lines 276-282
suspend(t, F) == release(t, F)

\* run_app, lines 297-302: enable_raw_mode()?; execute!(Enter..)?
resume(t, F) ==
    IF "raw_on" \in F THEN TermResult(FALSE, t, <<>>)
    ELSE LET t1 == [t EXCEPT !.raw = TRUE] IN
    IF "screen_enter" \in F THEN TermResult(FALSE, t1, <<"enable_raw_mode">>)
    ELSE TermResult(TRUE, [t1 EXCEPT !.alt = TRUE],
                    <<"enable_raw_mode", "enter_screen">>)

\* ---------------------------------------------------------------- state
\* run and run_app: where the controller is (pc), the arguments of the login
\* that runs, the turns of the loop so far, the result of run_app and of run
NoKey == [code |-> "None", c |-> "", n |-> 0]

NoCtl ==
    [pc |-> "start", last_refresh |-> 0, account_name |-> NoName,
     provider_id |-> "", res |-> "none", exit |-> "none", turns |-> 0]

Call(op, a, b, rec, F, out, again) ==
    [op |-> op, a |-> a, b |-> b, rec |-> rec, F |-> F,
     ok |-> out.ok, step |-> out.step, again |-> again,
     snap |-> NoSnapshot, full |-> FALSE]

NoCall(op) ==
    [op |-> op, a |-> NoName, b |-> NoName, rec |-> NoAccount, F |-> {},
     ok |-> TRUE, step |-> "done", again |-> FALSE, snap |-> NoSnapshot,
     full |-> FALSE]

\* SecureStorage::new opens whatever earlier runs left in the config
\* directory and the keyring: some accounts logged in, some of them with one
\* recorded snapshot.  Names are interchangeable, so the accounts present at
\* the start are 1..k in that order.
InitOrders == {[j \in 1..k |-> j] : k \in 0..MaxNames}

InitAccount(n) == Account(n, PROVIDERS[((n - 1) % Len(PROVIDERS)) + 1], 0, 0)

InitHistory(n) ==
    QuotaHistory(n, <<[timestamp |-> 0, tokens_used |-> n,
                       requests_made |-> None, cost |-> None]>>)

Stores(orders) ==
    /\ \E order \in orders :
       \E H \in SUBSET {order[k] : k \in DOMAIN order} :
        LET withHist == SelectSeq(order, LAMBDA n : n \in H) IN
        /\ index = IF Len(order) = 0 THEN AbsentDoc
                   ELSE OkDoc([k \in 1..Len(order) |-> InitAccount(order[k])])
        /\ vault = [n \in Names |->
                      IF \E k \in DOMAIN order : order[k] = n
                      THEN 1 ELSE NoCred]
        /\ history = IF H = {} THEN AbsentDoc
                     ELSE OkDoc([k \in 1..Len(withHist) |->
                                    InitHistory(withHist[k])])
    /\ now = 0
    /\ calls = 0
    /\ faulty = 0
    /\ last = NoCall("init")

Init ==
    /\ Stores(InitOrders)
    /\ app = NoApp
    /\ term = TermOff
    /\ ctl = NoCtl
    /\ report = NoReport

Apply(F, out) ==
    /\ F # {} => faulty < MaxFaulty
    /\ calls' = calls + 1
    /\ faulty' = IF F = {} THEN faulty ELSE faulty + 1
    /\ index' = out.index
    /\ vault' = out.vault
    /\ history' = out.history
    /\ UNCHANGED now

Tick ==
    /\ now < MaxTime
    /\ now' = now + 1
    /\ last' = NoCall("tick")
    /\ UNCHANGED <<index, vault, history, calls, faulty>>
    /\ UNCHANGED dashvars

Login ==
    /\ calls < MaxCalls
    /\ \E name \in Names, provider \in ProviderIds, cred \in Creds,
       F \in LoginFaultSets :
        LET run(G) == login(index, vault, history, name, provider, cred,
                            now, G)
        IN  \E out \in {run(F)} :
            /\ Met(F, run)
            /\ Apply(F, out)
            /\ UNCHANGED dashvars
            /\ last' = Call("login", name, NoName,
                            Account(name, provider, now, now), F, out, FALSE)

\* save_account is called by the login flows only: after the credential was
\* stored under the record's name, with a record stamped with the current
\* time.
SaveAccount ==
    /\ calls < MaxCalls
    /\ \E name \in Names, provider \in ProviderIds,
       F \in SaveFaultSets :
        /\ vault[name] # NoCred
        /\ LET rec == Account(name, provider, now, now)
               run(G) == save_account(index, vault, history, rec, G)
           IN  \E out \in {run(F)} :
               /\ Met(F, run)
               /\ Apply(F, out)
               /\ UNCHANGED dashvars
               /\ last' = Call("save_account", name, NoName, rec, F, out,
                               /\ out.ok
                               /\ last.op = "save_account"
                               /\ last.ok
                               /\ last.rec = rec)

RemoveAccount ==
    /\ calls < MaxCalls
    /\ \E name \in Names, F \in RemoveFaultSets :
        LET run(G) == remove_account(index, vault, history, name, G)
        IN  \E out \in {run(F)} :
            /\ Met(F, run)
            /\ Apply(F, out)
            /\ UNCHANGED dashvars
            /\ last' = Call("remove_account", name, NoName, NoAccount, F, out,
                            FALSE)

RenameAccount ==
    /\ calls < MaxCalls
    /\ \E old_name \in Names, new_name \in Names,
       F \in RenameFaultSets :
        LET run(G) == rename_account(index, vault, history, old_name,
                                     new_name, now, G)
        IN  \E out \in {run(F)} :
            /\ Met(F, run)
            /\ Apply(F, out)
            /\ UNCHANGED dashvars
            /\ last' = Call("rename_account", old_name, new_name, NoAccount,
                            F, out, FALSE)

\* the usage a fetch can report in the account-store specification
StoreQuotas ==
    {[last_updated |-> now, tokens_used |-> t, requests_made |-> None,
      cost |-> None] : t \in UsageOpt}

\* every usage a fetch can report
AllQuotas ==
    {[last_updated |-> now, tokens_used |-> t, requests_made |-> r,
      cost |-> c] : t \in UsageOpt, r \in UsageOpt, c \in UsageOpt}

AddSnapshotOf(quotas) ==
    /\ calls < MaxCalls
    /\ \E name \in Names, quota \in quotas, F \in AddFaultSets :
        LET run(G) == add_quota_snapshot(index, vault, history, name,
                                         quota, G)
        IN  \E out \in {run(F)} :
            /\ Met(F, run)
            /\ Apply(F, out)
            /\ UNCHANGED dashvars
            /\ last' = [Call("add_quota_snapshot", name, NoName, NoAccount,
                             F, out, FALSE)
                        EXCEPT !.snap = from_quota_info(quota),
                               !.full =
                                   Len(get_quota_history(history, name))
                                       = MAX_HISTORY_SIZE]

AddQuotaSnapshot == AddSnapshotOf(StoreQuotas)

AddAnyQuotaSnapshot == AddSnapshotOf(AllQuotas)

Next ==
    \/ Tick
    \/ Login
    \/ SaveAccount
    \/ RemoveAccount
    \/ RenameAccount
    \/ AddQuotaSnapshot

Spec == Init /\ [][Next]_vars

\* the history log alone, with every usage a fetch can report
NextHistory ==
    \/ Tick
    \/ AddAnyQuotaSnapshot

SpecHistory == Init /\ [][NextHistory]_vars


\* ----------------------------------------------------------- controller
refresh_duration == RefreshTicks

Key(code) == [code |-> code, c |-> "", n |-> 0]

\* KeyCode::Char of a command letter
CharKey(c) == [code |-> "Char", c |-> c, n |-> 0]

\* KeyCode::Char of a text character: a space or a name
TextKey(n) ==
    [code |-> "Char", c |-> IF n = Space THEN " " ELSE "name", n |-> n]

\* KeyCode::Char of a control character
ControlKey == [code |-> "Char", c |-> "control", n |-> 0]

\* the keys pressed where characters are commands; Tab stands for the keys
\* no mode reads
ViewKeys ==
    {Key("Esc"), Key("Down"), Key("Up"), Key("Tab")}
    \cup {CharKey(c) : c \in {"q", "R", "r", "n", "d", "j", "k"}}

SelectKeys ==
    {Key("Esc"), Key("Enter"), Key("Down"), Key("Up"), Key("Tab"),
     CharKey("j"), CharKey("k")}

ConfirmKeys == {Key("Esc"), Key("Enter"), Key("Tab")}

\* the keys pressed where characters are text
TextKeys ==
    {Key("Esc"), Key("Enter"), Key("Backspace"), Key("Tab")}
    \cup {TextKey(n) : n \in Chars} \cup {ControlKey}

KeysOf(mode) ==
    IF mode.tag \in {"Renaming", "CreatingAccountName"}
    THEN {k \in TextKeys :
            (k.code = "Char" /\ k.c # "control")
                => Spellable(Append(mode.buffer, k.n))}
    ELSE IF mode.tag = "CreatingAccount" THEN SelectKeys
    ELSE IF mode.tag = "Deleting" THEN ConfirmKeys
    ELSE ViewKeys

ExitFaults == {"raw_off", "screen_leave", "cursor"}
LoopFaults == {"draw", "poll"} \cup ExitFaults
NoFaultSets == {{}}

StartFaultSets    == FaultSets({"index_read", "raw_on", "screen_enter",
                                "terminal_new"})
IdleFaultSets     == FaultSets(LoopFaults)
QuitFaultSets     == FaultSets(ExitFaults)
RenamingFaultSets == FaultSets(RenameFaults)
DeletingFaultSets == FaultSets(RemoveFaults \cup {"reload"})
ReturnFaultSets   == FaultSets(ExitFaults \cup LoginFaults
                               \cup {"reload", "raw_on", "screen_enter"})

\* the faults a key can meet: those of the calls its handler makes
FaultSetsOf(mode, key) ==
    CASE mode.tag = "Viewing" /\ (key.code = "Esc" \/ key.c = "q")
            -> QuitFaultSets
      [] mode.tag = "Renaming" /\ key.code = "Enter" -> RenamingFaultSets
      [] mode.tag = "Deleting" /\ key.code = "Enter" -> DeletingFaultSets
      [] mode.tag = "CreatingAccountName" /\ key.code = "Enter"
            -> QuitFaultSets
      [] OTHER -> NoFaultSets

\* everything one step of the controller reads and writes, and what the
\* step did: the storage call it made, the accounts it asked a provider
\* about, its terminal calls in order, its refresh passes, and whether a
\* terminal call made run_app return early
World(i, v, h, a, t, c, l) ==
    [index |-> i, vault |-> v, history |-> h, app |-> a, term |-> t,
     ctl |-> c, call |-> l, asked |-> {}, made |-> FALSE, ops |-> <<>>,
     refreshed |-> 0, fetched |-> <<>>, failed |-> FALSE]

\* for account in &self.accounts: the accounts fetch_quota is called for
FetchedOf(self) == [k \in 1..Len(self.accounts) |-> self.accounts[k].name]

AskedOf(self, v) ==
    {self.accounts[k].name :
        k \in {j \in 1..Len(self.accounts) :
                 get_credentials(v, self.accounts[j].name, {}).ok}}

\* a refresh that leaves the idle interval running
refresh_untimed(w, t, fail) ==
    [w EXCEPT !.app = refresh_quotas(w.app, w.vault, fail),
              !.refreshed = @ + 1,
              !.fetched = @ \o FetchedOf(w.app),
              !.asked = @ \cup AskedOf(w.app, w.vault)]

\* app.refresh_quotas().await; last_refresh = Instant::now();
refresh(w, t, fail) ==
    [w EXCEPT !.app = refresh_quotas(w.app, w.vault, fail),
              !.ctl.last_refresh = t,
              !.refreshed = @ + 1,
              !.fetched = @ \o FetchedOf(w.app),
              !.asked = @ \cup AskedOf(w.app, w.vault)]

stored(w, op, a, b, rec, F, out) ==
    [w EXCEPT !.index = out.index, !.vault = out.vault,
              !.history = out.history,
              !.call = Call(op, a, b, rec, F, out, FALSE),
              !.made = TRUE]

\* storage.list_accounts() after a mutation: "reload" fails its read
list_accounts(doc, F) ==
    load_index(doc, IF "reload" \in F THEN {"index_read"} ELSE {})

IsChar(key, c) == key.code = "Char" /\ key.c = c

\* run_app, Mode::Viewing
on_viewing(w, key, t, fail) ==
    LET account == selected(w.app) IN
    CASE key.code = "Esc" \/ IsChar(key, "q") ->
            [w EXCEPT !.app.should_quit = TRUE]
      [] IsChar(key, "R") -> refresh(w, t, fail)
      [] IsChar(key, "r") ->
            IF account # NoAccount
            THEN [w EXCEPT !.app.mode = Renaming(to_buffer(account.name)),
                           !.app.status_message =
                               Status("renaming_mode", NoName, "")]
            ELSE w
      [] IsChar(key, "n") ->
            [w EXCEPT !.app.mode = CreatingAccount(0),
                      !.app.status_message =
                          Status("select_provider", NoName, "")]
      [] IsChar(key, "d") ->
            IF account # NoAccount
            THEN [w EXCEPT !.app.mode = Deleting,
                           !.app.status_message =
                               Status("delete_prompt", account.name, "")]
            ELSE w
      [] key.code = "Down" \/ IsChar(key, "j") ->
            [w EXCEPT !.app = next(w.app)]
      [] key.code = "Up" \/ IsChar(key, "k") ->
            [w EXCEPT !.app = previous(w.app)]
      [] OTHER -> w

\* a cancel that also quits
cancelled_quits(w, kind) ==
    [w EXCEPT !.app.mode = Viewing,
              !.app.should_quit = TRUE,
              !.app.status_message = Status(kind, NoName, "")]

\* a cancel that also puts the selection back on the first account
cancelled_reset(w, kind) ==
    [w EXCEPT !.app.mode = Viewing,
              !.app.selected_index = 0,
              !.app.status_message = Status(kind, NoName, "")]

\* a cancel that goes one step back in the creation of an account
cancelled_back(w, kind) ==
    [w EXCEPT !.app.mode = IF @.tag = "CreatingAccountName"
                           THEN CreatingAccount(0) ELSE Viewing,
              !.app.status_message = Status(kind, NoName, "")]

\* run_app, the KeyCode::Esc arms of the modes: lines 213-216, 242-245,
\* 331-334 and 380-383
cancelled(w, kind) ==
    [w EXCEPT !.app.mode = Viewing,
              !.app.status_message = Status(kind, NoName, "")]

\* an empty name that ends the renaming
name_empty_leaves(w) ==
    [w EXCEPT !.app.status_message = Status("name_empty", NoName, ""),
              !.app.mode = Viewing]

\* run_app, lines 196-197: the trimmed buffer is empty
name_empty(w) ==
    [w EXCEPT !.app.status_message = Status("name_empty", NoName, "")]

\* run_app, lines 198-201: the rename failed
rename_failed(w, err) ==
    [w EXCEPT !.app.status_message = Status("rename_failed", NoName, err)]

\* buffer.pop() / buffer.push(c) on the buffer of the mode
edit(w, key) ==
    LET buffer == w.app.mode.buffer IN
    IF key.code = "Backspace"
    THEN [w EXCEPT !.app.mode.buffer =
              IF buffer = <<>> THEN <<>>
              ELSE SubSeq(buffer, 1, Len(buffer) - 1)]
    ELSE IF key.code = "Char" /\ key.c # "control"
         THEN [w EXCEPT !.app.mode.buffer = Append(buffer, key.n)]
         ELSE w

\* run_app, Mode::Renaming
on_renaming(w, key, t, fail, F) ==
    LET account == selected(w.app)
        trimmed == trim(w.app.mode.buffer)
    IN
    CASE key.code = "Enter" ->
            IF account = NoAccount THEN w
            ELSE IF trimmed = <<>> THEN name_empty(w)
            ELSE
            LET out == rename_account(w.index, w.vault, w.history,
                                      account.name, to_name(trimmed), t, F)
                w1  == stored(w, "rename_account", account.name,
                              to_name(trimmed), NoAccount, F, out)
            IN  IF ~ out.ok THEN rename_failed(w1, out.step)
                ELSE refresh(
                       [w1 EXCEPT
                          !.app.accounts[w.app.selected_index + 1].name =
                              to_name(trimmed),
                          !.app.status_message =
                              Status("renamed", NoName, ""),
                          !.app.mode = Viewing],
                       t, fail)
      [] key.code = "Esc" -> cancelled(w, "rename_cancelled")
      [] OTHER -> edit(w, key)

\* a cursor that goes from the last provider to the first
cursor_down_around(selected_provider) ==
    (selected_provider + 1) % Len(PROVIDERS)

\* run_app, lines 247-249
cursor_down(selected_provider) ==
    IF selected_provider < Len(PROVIDERS) - 1
    THEN selected_provider + 1
    ELSE selected_provider

\* run_app, lines 252-254
cursor_up(selected_provider) ==
    IF selected_provider > 0 THEN selected_provider - 1 ELSE selected_provider

\* run_app, Mode::CreatingAccount
on_creating_account(w, key, t) ==
    LET selected_provider == w.app.mode.selected_provider IN
    CASE key.code = "Enter" ->
            LET provider_id == PROVIDERS[selected_provider + 1] IN
            [w EXCEPT !.app.mode =
                          CreatingAccountName(provider_id,
                              to_buffer(default_name(provider_id, t))),
                      !.app.status_message =
                          Status("enter_name", NoName, "")]
      [] key.code = "Esc" -> cancelled(w, "creation_cancelled")
      [] key.code = "Down" \/ IsChar(key, "j") ->
            [w EXCEPT !.app.mode.selected_provider = cursor_down(@)]
      [] key.code = "Up" \/ IsChar(key, "k") ->
            [w EXCEPT !.app.mode.selected_provider = cursor_up(@)]
      [] OTHER -> w

\* run_app, Mode::CreatingAccountName up to the call of the login flow
on_creating_name(w, key, t, F) ==
    LET buffer      == w.app.mode.buffer
        provider_id == w.app.mode.provider_id
    IN
    CASE key.code = "Enter" ->
            LET account_name ==
                    IF trim(buffer) = <<>>
                    THEN default_name(provider_id, t)
                    ELSE to_name(trim(buffer))
                su == suspend(w.term, F)
                w1 == [w EXCEPT !.app.mode = Viewing,
                                !.app.status_message =
                                    Status("creating", account_name, ""),
                                !.term = su.term,
                                !.ops = @ \o su.ops]
            IN  IF ~ su.ok THEN [w1 EXCEPT !.failed = TRUE]
                ELSE [w1 EXCEPT !.ctl.pc = "login",
                                !.ops = Append(@, "login"),
                                !.ctl.account_name = account_name,
                                !.ctl.provider_id = provider_id]
      [] key.code = "Esc" -> cancelled(w, "creation_cancelled")
      [] OTHER -> edit(w, key)

\* a reload that selects the first account
reloaded_first(self, accounts) ==
    [self EXCEPT !.accounts = accounts, !.selected_index = 0]

\* run_app, lines 309-312
reloaded(self, accounts) ==
    [self EXCEPT !.accounts = accounts,
                 !.selected_index =
                     IF accounts # <<>> THEN Len(accounts) - 1 ELSE @]

\* run_app, lines 285-329: the login flow runs and returns
on_login_return(w, t, cred, fail, F) ==
    LET account_name == w.ctl.account_name
        provider_id  == w.ctl.provider_id
        result == login(w.index, w.vault, w.history, account_name,
                        provider_id, cred, t, F)
        re == resume(w.term, F)
        w1 == [stored(w, "login", account_name, NoName,
                      Account(account_name, provider_id, t, t), F, result)
               EXCEPT !.term = re.term,
                      !.ops = <<"login_returned">> \o re.ops,
                      !.ctl.pc = "loop",
                      !.ctl.account_name = NoName,
                      !.ctl.provider_id = ""]
        li == list_accounts(result.index, F)
    IN  IF ~ re.ok THEN [w1 EXCEPT !.failed = TRUE]
        ELSE IF ~ result.ok
        THEN [w1 EXCEPT !.app.status_message =
                            Status("add_failed", NoName, result.step)]
        ELSE IF ~ li.ok
        THEN [w1 EXCEPT !.app.status_message =
                            Status("error_reloading", NoName, "load_index")]
        ELSE refresh(
               [w1 EXCEPT !.app = [reloaded(w.app, li.accounts) EXCEPT
                              !.status_message =
                                  Status("added", account_name, "")]],
               t, fail)

\* a reload that keeps the selection as it is
clamped_never(self, accounts) == [self EXCEPT !.accounts = accounts]

\* run_app, lines 354-359
clamped(self, accounts) ==
    [self EXCEPT !.accounts = accounts,
                 !.selected_index =
                     IF accounts = <<>> THEN 0
                     ELSE IF @ >= Len(accounts) THEN Len(accounts) - 1
                     ELSE @]

\* run_app, Mode::Deleting
on_deleting(w, key, t, fail, F) ==
    LET account == selected(w.app) IN
    CASE key.code = "Enter" ->
            IF account = NoAccount THEN [w EXCEPT !.app.mode = Viewing]
            ELSE
            LET out == remove_account(w.index, w.vault, w.history,
                                      account.name, F)
                w1  == [stored(w, "remove_account", account.name, NoName,
                               NoAccount, F, out)
                        EXCEPT !.app.mode = Viewing]
                li  == list_accounts(out.index, F)
            IN  IF ~ out.ok
                THEN [w1 EXCEPT !.app.status_message =
                                    Status("delete_failed", NoName, out.step)]
                ELSE IF ~ li.ok
                THEN [w1 EXCEPT !.app.status_message =
                                    Status("error_reloading", NoName,
                                           "load_index")]
                ELSE refresh(
                       [w1 EXCEPT !.app =
                           [clamped(w1.app, li.accounts) EXCEPT
                               !.quotas = <<>>,
                               !.status_message =
                                   Status("deleted", account.name, "")]],
                       t, fail)
      [] key.code = "Esc" -> cancelled(w, "delete_cancelled")
      [] OTHER -> w

\* run, lines 32-47: run_app has returned res; the terminal is restored and
\* the App is dropped
finish(w, res, F) ==
    LET r == restore(w.term, F) IN
    [w EXCEPT !.term = r.term,
              !.app = NoApp,
              !.ops = @ \o r.ops,
              !.ctl.pc = "exited",
              !.ctl.res = res,
              !.ctl.exit = IF r.ok THEN "ok" ELSE "err"]

\* an idle refresh that waits for the Viewing mode
tail_viewing(w, t, fail, F) ==
    LET w1 == IF t - w.ctl.last_refresh >= refresh_duration
                 /\ w.app.mode.tag = "Viewing"
              THEN refresh(w, t, fail)
              ELSE w
    IN  IF w1.app.should_quit THEN finish(w1, "ok", F) ELSE w1

\* run_app, lines 390-398: the idle refresh and the quit test
tail(w, t, fail, F) ==
    LET w1 == IF t - w.ctl.last_refresh >= refresh_duration
              THEN refresh(w, t, fail)
              ELSE w
    IN  IF w1.app.should_quit THEN finish(w1, "ok", F) ELSE w1

\* run_app, lines 148-386: match &mut app.mode
on_key(w, key, t, fail, F) ==
    CASE w.app.mode.tag = "Viewing" -> on_viewing(w, key, t, fail)
      [] w.app.mode.tag = "Renaming" -> on_renaming(w, key, t, fail, F)
      [] w.app.mode.tag = "CreatingAccount" -> on_creating_account(w, key, t)
      [] w.app.mode.tag = "CreatingAccountName" ->
            on_creating_name(w, key, t, F)
      [] w.app.mode.tag = "Deleting" -> on_deleting(w, key, t, fail, F)

\* run_app, lines 142-399: one turn of the loop; key is NoKey when the poll
\* times out
iteration(w, key, t, fail, F) ==
    LET w0 == [w EXCEPT !.ops = <<"draw">>, !.ctl.turns = @ + 1]
    IN  IF "draw" \in F THEN finish([w0 EXCEPT !.ops = <<>>], "err", F)
        ELSE IF "poll" \in F THEN finish(w0, "err", F)
        ELSE
        LET w1 == IF key.code = "None" THEN w0
                  ELSE on_key(w0, key, t, fail, F)
        IN  IF w1.failed THEN finish(w1, "err", F)
            ELSE IF w1.ctl.pc = "login" THEN w1
            ELSE tail(w1, t, fail, F)

\* the rest of the turn in which the login flow ran
login_returned(w, t, cred, fail, F) ==
    LET w1 == on_login_return(w, t, cred, fail, F)
    IN  IF w1.failed THEN finish(w1, "err", F)
        ELSE tail(w1, t, fail, F)

\* main (Commands::Dashboard) and run up to run_app
start(w, t, fail, F) ==
    LET li == load_index(w.index, F)
        su == setup(w.term, F)
        w0 == [w EXCEPT !.ctl.pc = "exited"]
    IN  IF ~ li.ok THEN [w0 EXCEPT !.ctl.exit = "err"]
        ELSE IF li.accounts = <<>> THEN [w0 EXCEPT !.ctl.exit = "ok"]
        ELSE IF ~ su.ok
        THEN [w0 EXCEPT !.term = su.term, !.ops = su.ops,
                        !.ctl.exit = "err"]
        ELSE [w EXCEPT !.term = su.term,
                       !.ops = su.ops,
                       !.ctl.pc = "loop",
                       !.ctl.last_refresh = t,
                       !.refreshed = 1,
                       !.fetched = [k \in 1..Len(li.accounts) |->
                                       li.accounts[k].name],
                       !.app = new_app(li.accounts, w.vault, fail),
                       !.asked = AskedOf([NoApp EXCEPT
                                             !.accounts = li.accounts],
                                         w.vault)]

Here == World(index, vault, history, app, term, ctl, last)

\* the provider calls that fail in a step: some of those it makes; a failing
\* provider call is a fault of the step
FailSets(asked) == {fail \in SUBSET asked : Cardinality(fail) <= MaxFaults}

\* the state a step leaves
Becomes(F, fail, out) ==
    /\ out.made => calls < MaxCalls
    /\ (F # {} \/ fail # {}) => faulty < MaxFaulty
    /\ calls' = IF out.made THEN calls + 1 ELSE calls
    /\ faulty' = IF F = {} /\ fail = {} THEN faulty ELSE faulty + 1
    /\ index' = out.index
    /\ vault' = out.vault
    /\ history' = out.history
    /\ app' = out.app
    /\ term' = out.term
    /\ ctl' = out.ctl
    /\ last' = out.call
    /\ UNCHANGED <<now, report>>

Start ==
    /\ ctl.pc = "start"
    /\ \E F \in StartFaultSets :
        LET run(G) == start(Here, now, {}, G)
        IN  \E out0 \in {run(F)} :
            /\ Met(F, run)
            /\ \E fail \in FailSets(out0.asked) :
                Becomes(F, fail, start(Here, now, fail, F))

KeyPress ==
    /\ ctl.pc = "loop"
    /\ ctl.turns < MaxTurns
    /\ \E key \in KeysOf(app.mode) :
       \E F \in FaultSetsOf(app.mode, key) :
        LET run(G) == iteration(Here, key, now, {}, G)
        IN  \E out0 \in {run(F)} :
            /\ Met(F, run)
            /\ \E fail \in FailSets(out0.asked) :
                Becomes(F, fail, iteration(Here, key, now, fail, F))

Idle ==
    /\ ctl.pc = "loop"
    /\ ctl.turns < MaxTurns
    /\ \E F \in IdleFaultSets :
        LET run(G) == iteration(Here, NoKey, now, {}, G)
        IN  \E out0 \in {run(F)} :
            /\ Met(F, run)
            /\ \E fail \in FailSets(out0.asked) :
                Becomes(F, fail, iteration(Here, NoKey, now, fail, F))

LoginReturns ==
    /\ ctl.pc = "login"
    /\ calls < MaxCalls
    /\ \E cred \in Creds, F \in ReturnFaultSets :
        LET run(G) == login_returned(Here, now, cred, {}, G)
        IN  \E out0 \in {run(F)} :
            /\ Met(F, run)
            /\ \E fail \in FailSets(out0.asked) :
                Becomes(F, fail, login_returned(Here, now, cred, fail, F))

NextDashboard ==
    \/ Tick
    \/ Start
    \/ KeyPress
    \/ Idle
    \/ LoginReturns

\* the dashboard starts on stores that leave a name free
InitDashboard ==
    /\ Stores({order \in InitOrders : Len(order) < MaxNames})
    /\ app = NoApp
    /\ term = TermOff
    /\ ctl = NoCtl
    /\ report = NoReport

SpecDashboard == InitDashboard /\ [][NextDashboard]_vars

\* -------------------------------------------------------------- reporting
\* a fetched quota is reported: by the list command (main.rs) in a build
\* with or without overflow checks, or by the gauge of the dashboard
Report(line) ==
    /\ report.line.by = "none"
    /\ report' = [report EXCEPT !.line = line]
    /\ UNCHANGED <<index, vault, history, now, calls, faulty, last, app,
                   term, ctl>>

FormatRequests ==
    Report(format_requests_with_bar(report.max_requests, report.requests,
                                    report.overflow_checks))

RenderRequests ==
    Report(render_requests_gauge(report.max_requests, report.requests))

\* the same numbers as the tokens used and max_tokens of the quota
FormatTokens ==
    Report(format_tokens_with_bar(report.max_requests, report.requests,
                                  report.overflow_checks))

\* the same numbers as the cost and max_cost of the quota
FormatCost ==
    Report(format_cost_with_bar(report.max_requests, report.requests,
                                report.overflow_checks))

NextReport ==
    \/ FormatRequests
    \/ RenderRequests
    \/ FormatTokens
    \/ FormatCost

InitReport ==
    /\ Stores({<<>>})
    /\ app = NoApp
    /\ term = TermOff
    /\ ctl = NoCtl
    /\ \E requests \in 0..MaxRequests,
          max_requests \in {None} \cup (0..MaxLimit),
          overflow_checks \in BOOLEAN :
          report = [requests |-> requests, max_requests |-> max_requests,
                    overflow_checks |-> overflow_checks, line |-> NoLine]

SpecReport == InitReport /\ [][NextReport]_vars

\* ------------------------------------------------------------ observers
\* what a caller can observe of the three stores
Listed(doc, n) ==
    /\ doc.st = "ok"
    /\ \E k \in 1..Len(doc.content) : doc.content[k].name = n

HasCred(v, n) == v[n] # NoCred

RecordsOf(doc, n) ==
    IF doc.st = "ok" THEN SelectSeq(doc.content, LAMBDA acc : acc.name = n)
    ELSE <<>>

HistoryOf(doc, n) ==
    IF doc.st = "ok"
    THEN SelectSeq(doc.content, LAMBDA h : h.account_name = n)
    ELSE <<>>

StoresUnchanged ==
    /\ index' = index
    /\ vault' = vault
    /\ history' = history

HistFaults == {"hist_read", "hist_write", "hist_torn"}

\* --------------------------------------------------------------- claims

\* C1: after every completed call a credential is stored in the Vault under
\* a name if and only if an account with that name is listed in the Index.
C1_CredentialIffListed ==
    \A n \in Names : HasCred(vault, n) <=> Listed(index, n)

\* C2: remove_account(X) for a listed X returns success and removes X from
\* the Index and from the Vault when the removal of X's history fails, in
\* the read or in the write of the history document.
C2_RemoveIgnoresHistoryFailure ==
    [][ ( /\ last'.op = "remove_account"
          /\ Listed(index, last'.a)
          /\ last'.F # {}
          /\ last'.F \subseteq HistFaults )
        => ( /\ last'.ok
             /\ ~Listed(index', last'.a)
             /\ ~HasCred(vault', last'.a) ) ]_vars

\* C3: a rename_account that returns an error leaves the Index, the Vault
\* and the History exactly as they were before the call.
C3_RenameAllOrNothing ==
    [][ (last'.op = "rename_account" /\ ~last'.ok) => StoresUnchanged ]_vars

\* C4: when storing the credential under the new name fails during
\* rename_account(A, B), the call returns an error and the Index still lists
\* A and does not list B.
C4_StoreFailureKeepsIndex ==
    [][ ( /\ last'.op = "rename_account"
          /\ last'.a # last'.b
          /\ "cred_set" \in last'.F
          /\ Listed(index, last'.a)
          /\ ~Listed(index, last'.b) )
        => ( /\ ~last'.ok
             /\ index' = index
             /\ Listed(index', last'.a)
             /\ ~Listed(index', last'.b) ) ]_vars

C4_Witness ==
    /\ last.op = "rename_account"
    /\ last.step = "store_credentials"
    /\ "cred_set" \in last.F
    /\ last.a # last.b
    /\ Listed(index, last.a)
    /\ HasCred(vault, last.a)

\* C5: rename_account(A, B) with A # B and B listed fails with the
\* already-exists error (a read error when the Index cannot be read) and
\* leaves the Index, the credentials and the histories unchanged.
C5_RenameCollision ==
    [][ ( /\ last'.op = "rename_account"
          /\ last'.a # last'.b
          /\ Listed(index, last'.b) )
        => ( /\ ~last'.ok
             /\ last'.step \in {"already_exists", "load_index"}
             /\ ("index_read" \notin last'.F => last'.step = "already_exists")
             /\ StoresUnchanged ) ]_vars

C5_Witness ==
    /\ last.op = "rename_account"
    /\ last.step = "already_exists"
    /\ last.a # last.b
    /\ Listed(index, last.a)
    /\ Listed(index, last.b)
    /\ HistoryOf(history, last.a) # <<>>

\* C6: after remove_account(X) returns success X is not listed,
\* get_credentials(X) fails, get_quota_history(X) is empty, and the record,
\* the credential and the history of every other account are unchanged.
C6_RemoveCascade ==
    [][ (last'.op = "remove_account" /\ last'.ok)
        => ( /\ ~Listed(index', last'.a)
             /\ ~get_credentials(vault', last'.a, {}).ok
             /\ history'.st # "torn"
             /\ get_quota_history(history', last'.a) = <<>>
             /\ \A n \in Names \ {last'.a} :
                   /\ RecordsOf(index', n) = RecordsOf(index, n)
                   /\ vault'[n] = vault[n]
                   /\ HistoryOf(history', n) = HistoryOf(history, n) ) ]_vars

\* C7: remove_account(name) for a name that is not listed returns an error,
\* the not-found error whenever the Index can be read, and changes none of
\* the three stores.
C7_RemoveNotFound ==
    [][ (last'.op = "remove_account" /\ ~Listed(index, last'.a))
        => ( /\ ~last'.ok
             /\ last'.step \in {"not_found", "load_index"}
             /\ ( (index.st # "torn" /\ "index_read" \notin last'.F)
                    => last'.step = "not_found" )
             /\ StoresUnchanged ) ]_vars

C7_Witness ==
    /\ last.op = "remove_account"
    /\ last.step = "not_found"
    /\ ~last.ok
    /\ index.st = "ok"
    /\ Len(index.content) > 0
    /\ ~Listed(index, last.a)

\* C8: in remove_account the Index is rewritten only after the credential
\* deletion and the history clearing were attempted, and whenever
\* remove_account of a listed account returns an error the account is still
\* listed.
C8_RemoveIndexLast ==
    [][ (last'.op = "remove_account")
        => ( /\ (index' # index)
                => ( /\ (~HasCred(vault', last'.a) \/ "cred_delete" \in last'.F)
                     /\ ( HistoryOf(history', last'.a) = <<>>
                          \/ last'.F \cap HistFaults # {} ) )
             /\ (~last'.ok /\ Listed(index, last'.a))
                => Listed(index', last'.a) ) ]_vars

\* C9: a save_account that succeeds right after a successful save_account
\* of the same record changes nothing, and the Index holds exactly one entry
\* with that name.
C9_SaveIdempotent ==
    [][ last'.again
        => ( /\ index' = index
             /\ Len(RecordsOf(index', last'.a)) = 1
             /\ RecordsOf(index', last'.a)[1] = last'.rec ) ]_vars

C9_Witness ==
    /\ last.again
    /\ last.op = "save_account"
    /\ Len(index.content) >= 2
    /\ index.content[Len(index.content)] = last.rec

\* C10: no two records of the Index have the same name.
C10_UniqueNames ==
    index.st = "ok" =>
        \A x, y \in 1..Len(index.content) :
            x # y => index.content[x].name # index.content[y].name

C10_Witness ==
    /\ last.op = "rename_account"
    /\ last.ok
    /\ last.step = "done"
    /\ calls = MaxCalls
    /\ Len(index.content) >= 2
    /\ Listed(index, last.b)

\* C11: every history holds at most MAX_HISTORY_SIZE snapshots; an append
\* that is stored when the history is full removes exactly the oldest
\* snapshot, keeps the order of the others and puts the new snapshot last.
C11_HistoryCap ==
    [][ (last'.op = "add_quota_snapshot")
        => ( /\ history'.st = "ok" =>
                  \A k \in 1..Len(history'.content) :
                      Len(history'.content[k].snapshots) <= MAX_HISTORY_SIZE
             /\ ( /\ last'.step = "changed"
                  /\ Len(get_quota_history(history, last'.a))
                        = MAX_HISTORY_SIZE )
                => get_quota_history(history', last'.a)
                     = Append(Tail(get_quota_history(history, last'.a)),
                              last'.snap) ) ]_vars

C11_Witness ==
    /\ last.op = "add_quota_snapshot"
    /\ last.step = "changed"
    /\ last.full
    /\ Len(get_quota_history(history, last.a)) = MAX_HISTORY_SIZE

SameUsage(s1, s2) ==
    /\ s1.tokens_used = s2.tokens_used
    /\ s1.requests_made = s2.requests_made
    /\ s1.cost = s2.cost

\* C12: add_quota_snapshot with the usage of the account's last stored
\* snapshot returns false and leaves the history unchanged; with a usage that
\* differs in tokens_used, requests_made or cost, or for an account with no
\* history, it returns true and the snapshot becomes the last entry.
C12_Dedup ==
    [][ ( /\ last'.op = "add_quota_snapshot"
          /\ last'.F = {}
          /\ history.st # "torn" )
        => LET old == get_quota_history(history, last'.a)
               new == get_quota_history(history', last'.a)
           IN  IF old # <<>> /\ SameUsage(last'.snap, old[Len(old)])
               THEN /\ last'.ok
                    /\ last'.step = "unchanged"
                    /\ history' = history
               ELSE /\ last'.ok
                    /\ last'.step = "changed"
                    /\ new # <<>>
                    /\ new[Len(new)] = last'.snap ]_vars

C12_WitnessSame ==
    /\ last.op = "add_quota_snapshot"
    /\ last.step = "unchanged"
    /\ last.snap.timestamp
         # get_quota_history(history, last.a)[
               Len(get_quota_history(history, last.a))].timestamp

C12_Witness ==
    /\ last.op = "add_quota_snapshot"
    /\ last.step = "changed"
    /\ Len(get_quota_history(history, last.a)) >= 2
    /\ LET h == get_quota_history(history, last.a) IN
        /\ h[Len(h)].tokens_used = h[Len(h) - 1].tokens_used
        /\ h[Len(h)].requests_made = h[Len(h) - 1].requests_made
        /\ h[Len(h)].cost # h[Len(h) - 1].cost

OneRecordPerName(doc) ==
    doc.st = "ok" => \A n \in Names : Len(HistoryOf(doc, n)) <= 1

\* C13: add_quota_snapshot, rename_account and remove_account keep the
\* history document at one record at most per account name.
C13_OneHistoryPerName ==
    [][ ( /\ last'.op \in {"add_quota_snapshot", "rename_account",
                            "remove_account"}
          /\ OneRecordPerName(history) )
        => OneRecordPerName(history') ]_vars

PositionOf(doc, n) ==
    IF doc.st = "ok" THEN find_account(doc.content, n) ELSE 0

\* C14: after a rename_account(old, new) that succeeds with old # new, the
\* record that was named old is at the same position and is named new, the
\* credential of old is under new and none is under old, and the history of
\* old is under new and none is under old.
C14_RenameMoves ==
    [][ (last'.op = "rename_account" /\ last'.ok /\ last'.a # last'.b)
        => /\ PositionOf(index, last'.a) # 0
           /\ PositionOf(index', last'.b) = PositionOf(index, last'.a)
           /\ vault'[last'.b] = vault[last'.a]
           /\ ~ get_credentials(vault', last'.a, {}).ok
           /\ get_quota_history(history', last'.b)
                = get_quota_history(history, last'.a)
           /\ get_quota_history(history', last'.a) = <<>> ]_vars

NoAccountWithoutCredential(i, v) ==
    \A n \in Names : Listed(i, n) => HasCred(v, n)

\* C15: a login, whether it succeeds, fails or is interrupted at any step,
\* leaves no account in the Index whose credential is missing, and it
\* changes the Index only when the credential of its account is stored.
C15_CredentialBeforeAccount ==
    [][ (last'.op = "login" /\ NoAccountWithoutCredential(index, vault))
        => /\ NoAccountWithoutCredential(index', vault')
           /\ index' # index => HasCred(vault', last'.a) ]_vars

C15_Witness ==
    /\ last.op = "login"
    /\ ~ last.ok
    /\ last.step \in {"interrupt", "load_index", "save_index"}
    /\ HasCred(vault, last.a)
    /\ ~ Listed(index, last.a)
    /\ \E n \in Names : Listed(index, n)

\* C16: the Index document and the History document are at every moment
\* either complete or absent, never partly written, a failed save included.
C16_CompleteOrAbsent ==
    /\ index.st # "torn"
    /\ history.st # "torn"

\* the turn of the loop that reads key in the current state
Turn(key, F, fail) == iteration(Here, key, now, fail, F)

\* the rest of the turn when the login flow returns in the current state
Returned(cred, F, fail) == login_returned(Here, now, cred, fail, F)

Confirms(mode) ==
    \/ mode.tag \in {"CreatingAccount", "CreatingAccountName", "Deleting"}
    \/ mode.tag = "Renaming" /\ trim(mode.buffer) # <<>>

\* C17: in Renaming with a non-empty trimmed name, CreatingAccount,
\* CreatingAccountName and Deleting, Esc leads to Viewing, and Enter leads to
\* Viewing (from CreatingAccount through CreatingAccountName), whatever the
\* storage or login call returns.
C17_BackToViewing ==
    /\ (ctl.pc = "loop" /\ Confirms(app.mode))
        => \A key \in {Key("Esc"), Key("Enter")} :
           \A F \in FaultSetsOf(app.mode, key) :
            LET out == Turn(key, F, {}) IN
            out.ctl.pc # "exited"
                => out.app.mode.tag =
                     IF app.mode.tag = "CreatingAccount" /\ key.code = "Enter"
                     THEN "CreatingAccountName" ELSE "Viewing"
    /\ ctl.pc = "login"
        => \A cred \in Creds, F \in ReturnFaultSets :
            LET out == Returned(cred, F, {}) IN
            out.ctl.pc # "exited" => out.app.mode.tag = "Viewing"

SameMemory(a1, a2) ==
    /\ a1.accounts = a2.accounts
    /\ a1.quotas = a2.quotas
    /\ a1.selected_index = a2.selected_index

ErrorShown(out) ==
    /\ out.app.status_message.kind
         \in {"rename_failed", "delete_failed", "add_failed"}
    /\ out.app.status_message.err = out.call.step

\* C18: when the storage or login call of a rename, create or delete confirm
\* fails, the status text is the error, the mode is Viewing, and the account
\* list, the cached quotas and the selection are what they were.
C18_FailureKeepsMemory ==
    /\ (ctl.pc = "loop" /\ app.mode.tag \in {"Renaming", "Deleting"})
        => \A F \in FaultSetsOf(app.mode, Key("Enter")) :
            LET out == Turn(Key("Enter"), F, {}) IN
            (out.made /\ ~ out.call.ok /\ out.ctl.pc # "exited")
                => /\ ErrorShown(out)
                   /\ out.app.mode.tag = "Viewing"
                   /\ SameMemory(out.app, app)
    /\ ctl.pc = "login"
        => \A cred \in Creds, F \in ReturnFaultSets :
            LET out == Returned(cred, F, {}) IN
            (~ out.call.ok /\ out.ctl.pc # "exited")
                => /\ ErrorShown(out)
                   /\ out.app.mode.tag = "Viewing"
                   /\ SameMemory(out.app, app)

Count(ops, x) == Len(SelectSeq(ops, LAMBDA o : o = x))

Precedes(ops, x, y) ==
    \E i \in 1..Len(ops), j \in 1..Len(ops) :
        i < j /\ ops[i] = x /\ ops[j] = y

\* C19: the confirm of CreatingAccountName disables raw mode and leaves the
\* alternate screen before the login flow starts, raw mode is off while the
\* flow runs, and when the flow has returned, with success or with failure,
\* raw mode is enabled exactly once before the loop renders again.
C19_TerminalReleased ==
    /\ (ctl.pc = "loop" /\ app.mode.tag = "CreatingAccountName")
        => \A F \in FaultSetsOf(app.mode, Key("Enter")) :
            LET out == Turn(Key("Enter"), F, {}) IN
            Count(out.ops, "login") > 0
                => /\ Precedes(out.ops, "disable_raw_mode", "login")
                   /\ Precedes(out.ops, "leave_screen", "login")
                   /\ Count(out.ops, "enable_raw_mode") = 0
                   /\ out.ctl.pc = "login"
                   /\ ~ out.term.raw
    /\ ctl.pc = "login" => (~ term.raw /\ ~ term.alt)
    /\ ctl.pc = "login"
        => \A cred \in Creds, F \in ReturnFaultSets :
            LET out == Returned(cred, F, {}) IN
            out.ctl.pc = "loop"
                => /\ Count(out.ops, "enable_raw_mode") = 1
                   /\ Precedes(out.ops, "login_returned", "enable_raw_mode")
                   /\ out.term.raw
    /\ ctl.pc = "loop" => term.raw

C19_Witness ==
    /\ ctl.pc = "loop"
    /\ term.raw
    /\ last.op = "login"
    /\ ~ last.ok
    /\ app.status_message.kind = "add_failed"

Reloaded(out) ==
    /\ out.index.st = "ok"
    /\ out.app.accounts = out.index.content
    /\ selected(out.app).name = ctl.account_name
    /\ \E k \in 1..Len(out.app.accounts) :
          out.app.accounts[k].name = ctl.account_name

Typed(buffer) == SelectSeq(buffer, LAMBDA c : c # Space)

\* C21: the confirm of CreatingAccount takes the provider under the cursor
\* into CreatingAccountName, where editing keeps it; the confirm of
\* CreatingAccountName passes to the login flow of that provider the name the
\* buffer spells without the white space around it, or, when nothing is left,
\* the default name of the provider and of the time of this confirm.
C21_ResolvedName ==
    /\ (ctl.pc = "loop" /\ app.mode.tag = "CreatingAccount")
        => LET out == Turn(Key("Enter"), {}, {}) IN
           /\ out.app.mode.tag = "CreatingAccountName"
           /\ out.app.mode.provider_id =
                PROVIDERS[app.mode.selected_provider + 1]
    /\ (ctl.pc = "loop" /\ app.mode.tag = "CreatingAccountName")
        => /\ \A key \in KeysOf(app.mode) \ {Key("Enter"), Key("Esc")} :
                Turn(key, {}, {}).app.mode.provider_id = app.mode.provider_id
           /\ \A F \in FaultSetsOf(app.mode, Key("Enter")) :
               LET out == Turn(Key("Enter"), F, {}) IN
               out.ctl.pc = "login"
                   => /\ out.ctl.account_name =
                           IF Typed(app.mode.buffer) = <<>>
                           THEN default_name(app.mode.provider_id, now)
                           ELSE Typed(app.mode.buffer)[1]
                      /\ out.ctl.provider_id = app.mode.provider_id
    /\ ctl.pc = "login"
        => \A cred \in Creds, F \in ReturnFaultSets :
            LET out == Returned(cred, F, {}) IN
            /\ out.made
            /\ out.call.op = "login"
            /\ out.call.a = ctl.account_name
            /\ out.call.rec.provider = ctl.provider_id

\* a typed name with white space after it is confirmed for the second
\* provider
C21_Witness ==
    /\ ctl.pc = "loop"
    /\ app.mode.tag = "CreatingAccountName"
    /\ app.mode.provider_id = PROVIDERS[2]
    /\ Len(app.mode.buffer) = 2
    /\ app.mode.buffer[1] \in Names
    /\ app.mode.buffer[2] = Space
    /\ Turn(Key("Enter"), {}, {}).ctl.pc = "login"
    /\ Turn(Key("Enter"), {}, {}).ctl.account_name = app.mode.buffer[1]

NoQuota == [account_name |-> NoName, provider |-> ""]

\* render_quota_details: the quota drawn for position i (from 1) of the list
ShownQuota(self, i) ==
    IF i - 1 >= Len(self.quotas) THEN NoQuota ELSE self.quotas[i]

\* C22: after a refresh pass, the quota cached for each position of the
\* account list is the one fetched for the account at that position when its
\* fetch succeeded, and is absent when its fetch failed.
C22_QuotaOfPosition ==
    (ctl.pc = "loop" /\ app.mode.tag = "Viewing")
        => \A fail \in FailSets(AskedOf(app, vault)) :
            LET out == Turn(CharKey("R"), {}, fail) IN
            \A i \in 1..Len(out.app.accounts) :
                LET account == out.app.accounts[i] IN
                ShownQuota(out.app, i) =
                    IF fetch_quota(account, vault, fail).ok
                    THEN Quota(account)
                    ELSE NoQuota

\* C23: when requests_made is above max_requests, the line that reports the
\* requests is produced, its remaining count is 0, and the percentage it
\* prints is requests_made * 100 / max_requests to one decimal.
C23_SaturatedRemaining ==
    LET line == report.line
        requests == report.requests
        max_requests == report.max_requests
    IN  (line.by # "none" /\ max_requests > 0 /\ requests > max_requests)
            => /\ line.ok
               /\ line.remaining = 0
               /\ line.by = "format_requests_with_bar"
                    => /\ 2 * (line.percent * max_requests
                                 - 1000 * requests) <= max_requests
                       /\ 2 * (1000 * requests
                                 - line.percent * max_requests) <= max_requests

\* the mode changes of section 4.6
Allowed(from, to) ==
    \/ from = to
    \/ from = "Viewing" /\ to \in {"Renaming", "CreatingAccount", "Deleting"}
    \/ from = "CreatingAccount" /\ to = "CreatingAccountName"
    \/ from # "Viewing" /\ to = "Viewing"

\* C24: whatever key a turn of the loop reads and whatever its calls return,
\* and when the login flow returns, the mode stays or changes from Viewing to
\* Renaming, CreatingAccount or Deleting, from CreatingAccount to
\* CreatingAccountName, or from a mode other than Viewing to Viewing.
C24_ModeChanges ==
    /\ ctl.pc = "loop"
        => /\ \A key \in KeysOf(app.mode) :
              \A F \in FaultSetsOf(app.mode, key) :
              \A fail \in FailSets(AskedOf(app, vault)) :
                LET out == Turn(key, F, fail) IN
                out.ctl.pc # "exited"
                    => Allowed(app.mode.tag, out.app.mode.tag)
           /\ \A F \in IdleFaultSets :
              \A fail \in FailSets(AskedOf(app, vault)) :
                LET out == Turn(NoKey, F, fail) IN
                out.ctl.pc # "exited" => out.app.mode.tag = app.mode.tag
    /\ ctl.pc = "login"
        => \A cred \in Creds, F \in ReturnFaultSets :
            LET out == Returned(cred, F, {}) IN
            out.ctl.pc # "exited"
                => Allowed(app.mode.tag, out.app.mode.tag)

\* after a rename that succeeded in Renaming, the controller is in Deleting
C24_Witness ==
    /\ ctl.pc = "loop"
    /\ app.mode.tag = "Deleting"
    /\ last.op = "rename_account"
    /\ last.ok

\* the selection addresses an account of the list, or the list is empty
Addresses(self) ==
    self.accounts = <<>> \/ self.selected_index < Len(self.accounts)

\* C25: the selection addresses an account of the in-memory list or the list
\* is empty; in Viewing, down and up move it by one modulo the number of
\* accounts and leave it alone on an empty list; a create that succeeded and
\* reloaded the list selects the last position; a delete that succeeded and
\* reloaded the list leaves the selection where it was, or at the last
\* position of the shorter list, or at 0 when the list is empty.
C25_SelectionValid ==
    LET n == Len(app.accounts)
        sel == app.selected_index
    IN
    /\ ctl.pc \in {"loop", "login"} => Addresses(app)
    /\ (ctl.pc = "loop" /\ app.mode.tag = "Viewing")
        => /\ \A key \in {Key("Down"), CharKey("j")} :
                Turn(key, {}, {}).app.selected_index =
                    IF n = 0 THEN sel ELSE (sel + 1) % n
           /\ \A key \in {Key("Up"), CharKey("k")} :
                Turn(key, {}, {}).app.selected_index =
                    IF n = 0 THEN sel ELSE (sel + n - 1) % n
    /\ (ctl.pc = "loop" /\ app.mode.tag = "Deleting")
        => \A F \in FaultSetsOf(app.mode, Key("Enter")) :
            LET out == Turn(Key("Enter"), F, {})
                m   == Len(out.app.accounts)
            IN  (out.made /\ out.call.ok /\ "reload" \notin F)
                    => /\ Addresses(out.app)
                       /\ out.app.selected_index =
                            IF m = 0 THEN 0
                            ELSE IF sel >= m THEN m - 1 ELSE sel
    /\ ctl.pc = "login"
        => \A cred \in Creds, F \in ReturnFaultSets :
            LET out == Returned(cred, F, {}) IN
            (out.call.ok /\ out.ctl.pc = "loop" /\ "reload" \notin F)
                => out.app.selected_index = Len(out.app.accounts) - 1

\* the second of two accounts was selected and deleted: the selection is
\* clamped to the one account left
C25_Witness ==
    /\ ctl.pc = "loop"
    /\ last.op = "remove_account"
    /\ last.ok
    /\ last.a = 2
    /\ app.accounts = index.content
    /\ Len(app.accounts) = 1
    /\ app.accounts[1].name = 1
    /\ app.selected_index = 0

\* C26: in CreatingAccount the cursor is a position of PROVIDERS; down moves
\* it one entry on and leaves it at the last entry, up moves it one entry
\* back and leaves it at the first, neither leaves the mode, and the confirm
\* takes the provider under the cursor.
C26_ProviderCursor ==
    LET sp   == app.mode.selected_provider
        last_entry == Len(PROVIDERS) - 1
    IN  (ctl.pc = "loop" /\ app.mode.tag = "CreatingAccount")
            => /\ sp \in 0..last_entry
               /\ \A key \in {Key("Down"), CharKey("j")} :
                    Turn(key, {}, {}).app.mode =
                        CreatingAccount(IF sp = last_entry THEN sp ELSE sp + 1)
               /\ \A key \in {Key("Up"), CharKey("k")} :
                    Turn(key, {}, {}).app.mode =
                        CreatingAccount(IF sp = 0 THEN sp ELSE sp - 1)
               /\ Turn(Key("Enter"), {}, {}).app.mode.provider_id =
                    PROVIDERS[sp + 1]

\* the cursor is on the last provider, where down leaves it
C26_Witness ==
    /\ ctl.pc = "loop"
    /\ app.mode.tag = "CreatingAccount"
    /\ app.mode.selected_provider = Len(PROVIDERS) - 1
    /\ Turn(Key("Down"), {}, {}).app.mode = app.mode
    /\ Turn(Key("Enter"), {}, {}).app.mode.provider_id = "openrouter"

\* a turn that left the three stores and the in-memory account list alone
\* and made no call that writes to the stores
NothingStored(out) ==
    /\ ~ out.made
    /\ out.index = index
    /\ out.vault = vault
    /\ out.history = history
    /\ out.app.accounts = app.accounts

OnlyCancelled(out) ==
    /\ out.ctl.pc = "loop"
    /\ out.app.mode = Viewing
    /\ out.ops = <<"draw">>
    /\ out.term = term
    /\ ~ out.made
    /\ out.index = index
    /\ out.vault = vault
    /\ out.app.accounts = app.accounts
    /\ out.app.selected_index = app.selected_index

C29_CreatedStatus ==
    ctl.pc = "login"
        => \A cred \in Creds, F \in ReturnFaultSets :
            LET out == Returned(cred, F, {}) IN
            (out.call.ok /\ out.ctl.pc = "loop")
                => /\ out.app.mode = Viewing
                   /\ out.app.status_message =
                        Status("added", ctl.account_name, "")

\* the positions of the account list whose fetch fails
Failing(self, v, fail) ==
    {i \in 1..Len(self.accounts) : ~ fetch_quota(self.accounts[i], v, fail).ok}

\* C30: after a refresh pass in which the fetch of some account failed, the
\* status is the error of the last account in list order whose fetch failed,
\* whatever the fetches after it returned; after a pass without a failure
\* the status is the "Last updated" message.
C30_LastErrorWins ==
    (ctl.pc = "loop" /\ app.mode.tag = "Viewing")
        => \A fail \in SUBSET AskedOf(app, vault) :
            LET out    == Turn(CharKey("R"), {}, fail)
                failed == Failing(app, vault, fail)
            IN  /\ out.refreshed >= 1
                /\ out.app.status_message =
                    IF failed = {} THEN Status("last_updated", NoName, "")
                    ELSE LET k == CHOOSE i \in failed :
                                    \A j \in failed : j <= i
                         IN  Status("error_fetching", app.accounts[k].name,
                                    fetch_quota(app.accounts[k], vault,
                                                fail).err)

\* the fetch of the first account failed in a pass and that of the second
\* succeeded
C30_Witness ==
    /\ ctl.pc = "loop"
    /\ Len(app.accounts) = 2
    /\ app.status_message.kind = "error_fetching"
    /\ app.status_message.name = app.accounts[1].name
    /\ Len(app.quotas) = 1
    /\ app.quotas[1].account_name = app.accounts[2].name

\* the idle interval has elapsed
Due == now - ctl.last_refresh >= refresh_duration

\* the key read in the current state is the manual refresh, or a confirm
\* whose rename succeeded, or a confirm whose delete and reload succeeded
Occasion(key, F, out) ==
    \/ app.mode.tag = "Viewing" /\ IsChar(key, "R")
    \/ /\ app.mode.tag = "Renaming"
       /\ key.code = "Enter"
       /\ out.made
       /\ out.call.ok
    \/ /\ app.mode.tag = "Deleting"
       /\ key.code = "Enter"
       /\ out.made
       /\ out.call.ok
       /\ "reload" \notin F

\* a step made these many refresh passes, each over the whole in-memory list
\* in list order, and a pass restarted the idle interval
Passed(out, n) ==
    /\ out.refreshed = n
    /\ out.fetched = IF n = 0 THEN <<>> ELSE FetchedOf(out.app)
    /\ out.ctl.last_refresh = IF n = 0 THEN ctl.last_refresh ELSE now

\* C31: the start of the controller makes one refresh pass; a turn of the
\* loop makes one when its key is the manual refresh of Viewing or the
\* confirm of a rename or delete that succeeded, or when the idle interval
\* has elapsed, and none otherwise; the return of the login flow makes one
\* when the create succeeded or the interval has elapsed, and none
\* otherwise; a pass fetches every account of the in-memory list once in
\* list order and restarts the idle interval.
C31_RefreshOccasions ==
    /\ ctl.pc = "start"
        => \A F \in StartFaultSets :
            LET out == start(Here, now, {}, F) IN
            /\ out.refreshed = IF out.ctl.pc = "loop" THEN 1 ELSE 0
            /\ out.ctl.pc = "loop"
                => /\ out.fetched = FetchedOf(out.app)
                   /\ out.ctl.last_refresh = now
    /\ ctl.pc = "loop"
        => /\ \A key \in KeysOf(app.mode) :
              \A F \in FaultSetsOf(app.mode, key) :
                LET out == Turn(key, F, {}) IN
                IF app.mode.tag = "CreatingAccountName" /\ key.code = "Enter"
                THEN Passed(out, 0)
                ELSE IF Occasion(key, F, out) \/ Due
                THEN Passed([out EXCEPT !.app.accounts =
                                IF out.ctl.pc = "exited" THEN app.accounts
                                ELSE @], 1)
                ELSE Passed(out, 0)
           /\ \A F \in IdleFaultSets :
                LET out == Turn(NoKey, F, {}) IN
                IF Due /\ "draw" \notin F /\ "poll" \notin F
                THEN out.refreshed = 1 /\ out.fetched = FetchedOf(app)
                ELSE Passed(out, 0)
    /\ ctl.pc = "login"
        => \A cred \in Creds, F \in ReturnFaultSets :
            LET out == Returned(cred, F, {})
                resumed == "raw_on" \notin F /\ "screen_enter" \notin F
            IN  IF resumed /\ ((out.call.ok /\ "reload" \notin F) \/ Due)
                THEN /\ out.refreshed = 1
                     /\ out.ctl.pc = "loop"
                            => /\ out.fetched = FetchedOf(out.app)
                               /\ out.ctl.last_refresh = now
                ELSE Passed(out, 0)

\* a delete is about to be confirmed before the idle interval has elapsed:
\* the confirm makes a pass, the cancel makes none
C31_Witness ==
    /\ ctl.pc = "loop"
    /\ app.mode.tag = "Deleting"
    /\ ~ Due
    /\ Len(app.accounts) = 2
    /\ Turn(Key("Enter"), {}, {}).refreshed = 1
    /\ Turn(Key("Enter"), {}, {}).fetched =
            FetchedOf(Turn(Key("Enter"), {}, {}).app)
    /\ Turn(Key("Esc"), {}, {}).refreshed = 0

\* C32: when the idle interval has elapsed, every turn of the loop that does
\* not return with an error makes a refresh pass before it ends, in every
\* mode, whether it read a key or none; so does the turn in which the login
\* flow ran, once the flow has returned.
C32_IdleRefresh ==
    /\ (ctl.pc = "loop" /\ Due)
        => /\ \A key \in KeysOf(app.mode) :
              \A F \in FaultSetsOf(app.mode, key) :
                LET out == Turn(key, F, {}) IN
                /\ out.ctl.pc = "loop"
                    => out.refreshed = 1 /\ out.ctl.last_refresh = now
                /\ out.ctl.res = "ok" => out.refreshed = 1
           /\ \A F \in IdleFaultSets :
                LET out == Turn(NoKey, F, {}) IN
                out.ctl.pc = "loop"
                    => out.refreshed = 1 /\ out.ctl.last_refresh = now
    /\ (ctl.pc = "login" /\ Due)
        => \A cred \in Creds, F \in ReturnFaultSets :
            LET out == Returned(cred, F, {}) IN
            out.ctl.pc = "loop"
                => out.refreshed = 1 /\ out.ctl.last_refresh = now

\* the interval has elapsed while a provider is being chosen: the turn that
\* moves the cursor makes a pass and stays in the mode
C32_Witness ==
    /\ ctl.pc = "loop"
    /\ app.mode.tag = "CreatingAccount"
    /\ Due
    /\ Turn(Key("Down"), {}, {}).refreshed = 1
    /\ Turn(Key("Down"), {}, {}).app.mode = CreatingAccount(1)
    /\ Turn(NoKey, {}, {}).refreshed = 1

\* KeyCode::Char('q') | KeyCode::Esc
QuitKeys == {CharKey("q"), Key("Esc")}

\* the turn that follows a turn which left the world w
Then(w, key, F) == iteration(w, key, now, {}, F)

\* C33: a quit key read in Viewing makes run return at the end of that turn;
\* the quit flag is never set while the loop goes on; Esc in another mode
\* cancels the mode and the loop goes on in Viewing; a character typed in
\* Renaming or CreatingAccountName is added to the buffer and 'q' is ignored
\* in CreatingAccount and Deleting; and from every state of the loop the
\* turn of Esc, followed when the loop goes on by the turn of a quit key,
\* ends the loop.
C33_Quit ==
    /\ ctl.pc \in {"loop", "login"} => ~ app.should_quit
    /\ (ctl.pc = "loop" /\ app.mode.tag = "Viewing")
        => \A key \in QuitKeys, F \in QuitFaultSets :
            LET out == Turn(key, F, {}) IN
            /\ out.ctl.pc = "exited"
            /\ out.ctl.res = "ok"
            /\ out.ctl.exit = IF F = {} THEN "ok" ELSE "err"
    /\ (ctl.pc = "loop" /\ app.mode.tag # "Viewing")
        => /\ \A key \in KeysOf(app.mode) \cup {CharKey("q")} :
              \A F \in FaultSetsOf(app.mode, key) :
                LET out == Turn(key, F, {}) IN
                /\ ~ out.app.should_quit
                /\ out.ctl.res # "ok"
           /\ LET out == Turn(Key("Esc"), {}, {}) IN
              /\ out.ctl.pc = "loop"
              /\ out.app.mode = Viewing
              /\ \A key \in QuitKeys, F \in QuitFaultSets :
                    Then(out, key, F).ctl.pc = "exited"
    /\ (ctl.pc = "loop"
            /\ app.mode.tag \in {"Renaming", "CreatingAccountName"})
        => \A key \in {k \in KeysOf(app.mode) :
                          k.code = "Char" /\ k.c # "control"} :
            LET out == Turn(key, {}, {}) IN
            /\ out.app.mode.tag = app.mode.tag
            /\ out.app.mode.buffer = Append(app.mode.buffer, key.n)
    /\ (ctl.pc = "loop" /\ app.mode.tag \in {"CreatingAccount", "Deleting"})
        => Turn(CharKey("q"), {}, {}).app.mode = app.mode

\* the naming of a new account is cancelled and the next key quits
C33_Witness ==
    /\ ctl.pc = "loop"
    /\ app.mode.tag = "CreatingAccountName"
    /\ Turn(Key("Esc"), {}, {}).ctl.pc = "loop"
    /\ Then(Turn(Key("Esc"), {}, {}), CharKey("q"), {}).ctl.pc = "exited"
    /\ Then(Turn(Key("Esc"), {}, {}), CharKey("q"), {}).ctl.exit = "ok"

\* the lines of the list command that draw a bar
BarLines ==
    {"format_requests_with_bar", "format_tokens_with_bar",
     "format_cost_with_bar"}

\* C34: for every usage and limit, the line of the list command that draws a
\* bar is produced, with at most bar_width filled cells and with
\* bar_width - filled empty cells, which is not below zero.
C34_BarWithinWidth ==
    LET line == report.line IN
    (line.by \in BarLines /\ report.max_requests # None)
        => /\ line.ok
           /\ line.filled <= bar_width
           /\ line.empty = bar_width - line.filled
           /\ line.empty >= 0

\* C35: while the loop runs and the Index file is readable, the names of the
\* in-memory account list, in order, are the names of the accounts of the
\* Index, in order.
C35_MemoryIsIndex ==
    (ctl.pc = "loop" /\ index.st # "torn")
        => LET li == load_index(index, {}) IN
           FetchedOf(app) =
                [k \in 1..Len(li.accounts) |-> li.accounts[k].name]

\* C36: rename_account(n, n) returns success and hands back the Index
\* (last_updated included), the Vault and the History exactly as they were,
\* for every name n, listed or not, whatever the storage would do if it were
\* touched.
C36_RenameToSelf ==
    \A n \in Names, F \in RenameFaultSets :
        LET out == rename_account(index, vault, history, n, n, now, F) IN
        /\ out.ok
        /\ out.index = index
        /\ out.vault = vault
        /\ out.history = history

\* a rename of a name that is not listed to itself has returned success
\* while other accounts are listed
C36_Witness ==
    /\ last.op = "rename_account"
    /\ last.a = last.b
    /\ last.ok
    /\ index.st = "ok"
    /\ Len(index.content) > 0
    /\ ~Listed(index, last.a)

\* C37: whenever the mode is Renaming or Deleting the in-memory account list
\* is not empty and the selection addresses one of its accounts; and the
\* rename key and the delete key pressed in Viewing with an empty list leave
\* the mode at Viewing.
C37_ConfirmHasAccount ==
    /\ app.mode.tag \in {"Renaming", "Deleting"}
        => /\ app.accounts # <<>>
           /\ app.selected_index < Len(app.accounts)
    /\ (ctl.pc = "loop" /\ app.mode.tag = "Viewing" /\ app.accounts = <<>>)
        => \A key \in {CharKey("r"), CharKey("d")} :
             Turn(key, {}, {}).app.mode.tag = "Viewing"

\* the delete confirmation is open on the second of two accounts
C37_Witness ==
    /\ ctl.pc = "loop"
    /\ app.mode.tag = "Deleting"
    /\ Len(app.accounts) = 2
    /\ app.selected_index = 1

\* the secrets a later login can obtain: those stored so far and a new one
LaterCreds == 1..(MaxCred + 1)

\* C38: a login under a name the Index already lists succeeds; it stores the
\* new credential under that name, keeps the other records in their order,
\* puts the new record (provider, created_at and last_updated of this login)
\* at the end, keeps the length of the Index and leaves the History as it is.
C38_LoginAgain ==
    \A name \in Names, provider \in ProviderIds, cred \in LaterCreds :
        Listed(index, name)
            => LET out == login(index, vault, history, name, provider, cred,
                                now, {})
                   others == SelectSeq(index.content,
                                       LAMBDA acc : acc.name # name)
               IN  /\ out.ok
                   /\ out.vault = [vault EXCEPT ![name] = cred]
                   /\ out.index =
                        OkDoc(Append(others,
                                     Account(name, provider, now, now)))
                   /\ Len(out.index.content) = Len(index.content)
                   /\ out.history = history

\* the first call of a run was a login under the name listed first of
\* MaxNames accounts with a history, at a later time than its creation: the
\* record is now the last one, created at the time of this login
C38_Witness ==
    /\ calls = 1
    /\ last.op = "login"
    /\ last.ok
    /\ last.a = 1
    /\ index.st = "ok"
    /\ Len(index.content) = MaxNames
    /\ index.content[MaxNames] = last.rec
    /\ last.rec.created_at > 0
    /\ HistoryOf(history, 1) # <<>>

\* C39: when run has returned, with success or with an error, terminal raw
\* mode is off; and while the loop runs (at its renders and key polls) raw
\* mode is on.
C39_RawModeOffAfterRun ==
    /\ ctl.pc = "exited" => ~ term.raw
    /\ ctl.pc = "loop" => term.raw

\* C40: in Renaming and in Deleting every turn of the loop that stays in the
\* mode (a text key, an ignored key, a confirm that failed, no key at all,
\* each with the refresh pass the turn may make) keeps the in-memory account
\* list and the selection; and a refresh pass changes nothing of the
\* controller but the cached quotas and the status text.
C40_SelectionKeptInMode ==
    ctl.pc = "loop"
        => /\ app.mode.tag \in {"Renaming", "Deleting"}
                => \A key \in KeysOf(app.mode) \cup {NoKey} :
                   \A F \in FaultSetsOf(app.mode, key) :
                   \A fail \in FailSets(AskedOf(app, vault)) :
                     LET out == Turn(key, F, fail) IN
                     (out.ctl.pc = "loop" /\ out.app.mode.tag = app.mode.tag)
                        => /\ out.app.accounts = app.accounts
                           /\ out.app.selected_index = app.selected_index
           /\ \A fail \in FailSets(AskedOf(app, vault)) :
                LET out == refresh(Here, now, fail).app IN
                [out EXCEPT !.quotas = app.quotas,
                            !.status_message = app.status_message] = app

\* a refresh pass was made while the delete confirmation was open on the
\* second of two accounts: the prompt has been replaced by the status of the
\* pass
C40_Witness ==
    /\ ctl.pc = "loop"
    /\ app.mode.tag = "Deleting"
    /\ app.status_message.kind # "delete_prompt"
    /\ ctl.last_refresh = now
    /\ Len(app.accounts) = 2
    /\ app.selected_index = 1

====
